---- MODULE Spec2Model ----
(***************************************************************************)
(* Model of the ParticleBackground component (src/unnamed/part_004): the   *)
(* canvas particle renderer with its mount effect, the animation-frame     *)
(* loop, the pointer and resize handlers and the effect cleanup.           *)
(*                                                                         *)
(* JavaScript numbers are modelled in fixed point: a coordinate, velocity, *)
(* size or opacity v is the integer v * Scale.  NaN is a distinguished     *)
(* value outside the range of every finite number of the model.            *)
(***************************************************************************)
EXTENDS Integers, Sequences, FiniteSets, TLC

\* ------------------------------------------------------------------ numbers

\* Fixed-point units per pixel (and per 1.0 of opacity).
Scale == 10000

\* Math.random() returns k / RandDen for an integer k in 0 .. RandDen - 1.
RandDen == 100000

\* The IEEE NaN produced by 0 / 0.
NaN == -1000000000

\* Program constants of createParticles and updateParticles / drawParticles.
MaxParticles == 100
AreaPerParticle == 15000
MouseRadius == 150
ConnectRadius == 120

\* Largest number of animate() passes explored.
MaxFrames == 3

IsNaN(v) == v = NaN

Abs(v) == IF v < 0 THEN -v ELSE v

Min(a, b) == IF a < b THEN a ELSE b

Max(a, b) == IF a > b THEN a ELSE b

\* a / b rounded toward zero, b > 0.
DivT(a, b) == IF a >= 0 THEN a \div b ELSE -((-a) \div b)

\* JavaScript a + b, a - b, -a and a < b, a > b on numbers that may be NaN.
NumAdd(a, b) == IF IsNaN(a) \/ IsNaN(b) THEN NaN ELSE a + b

NumSub(a, b) == IF IsNaN(a) \/ IsNaN(b) THEN NaN ELSE a - b

NumNeg(a) == IF IsNaN(a) THEN NaN ELSE -a

NumLt(a, b) == ~IsNaN(a) /\ ~IsNaN(b) /\ a < b

NumGt(a, b) == ~IsNaN(a) /\ ~IsNaN(b) /\ a > b

\* v * v for 0 <= v as a two-limb number <<hi, lo>> in base Scale * Scale,
\* so that squares of fixed-point distances do not leave the integer range.
Sq(v) ==
    LET a == v \div Scale
        b == v % Scale
        m == 2 * a * b
        lo0 == (m % Scale) * Scale + b * b
    IN  << a * a + (m \div Scale) + (lo0 \div (Scale * Scale)), lo0 % (Scale * Scale) >>

BigAdd(p, q) ==
    LET lo0 == p[2] + q[2]
    IN  << p[1] + q[1] + (lo0 \div (Scale * Scale)), lo0 % (Scale * Scale) >>

BigLeq(p, q) == p[1] < q[1] \/ (p[1] = q[1] /\ p[2] <= q[2])

\* The largest d in lo .. hi with d * d <= n (n a two-limb number).
RECURSIVE SqrtSearch(_, _, _)
SqrtSearch(n, lo, hi) ==
    IF lo >= hi THEN lo
    ELSE LET mid == (lo + hi + 1) \div 2
         IN  IF BigLeq(Sq(mid), n) THEN SqrtSearch(n, mid, hi)
             ELSE SqrtSearch(n, lo, mid - 1)

\* Math.sqrt(dx * dx + dy * dy), rounded down to the fixed-point grid.
Hypot(dx, dy) ==
    IF IsNaN(dx) \/ IsNaN(dy) THEN NaN
    ELSE LET ax == Abs(dx)
             ay == Abs(dy)
         IN  SqrtSearch(BigAdd(Sq(ax), Sq(ay)), Max(ax, ay), ax + ay)

\* Math.sqrt(dx * dx + dy * dy) < r for a whole number r of pixels.  Math.sqrt
\* is monotonic, so the test is decided on the squares.
WithinRadius(dx, dy, r) ==
    /\ ~IsNaN(dx) /\ ~IsNaN(dy)
    /\ Abs(dx) < r * Scale
    /\ Abs(dy) < r * Scale
    /\ LET n == BigAdd(Sq(Abs(dx)), Sq(Abs(dy)))
           t == Sq(r * Scale)
       IN  ~BigLeq(t, n)

\* ------------------------------------------------------------ createParticles

\* createParticles without the cap of 100 particles.
ParticleCountUncapped(w, h) == (w * h) \div AreaPerParticle

\* particleCount of createParticles for a canvas of w x h pixels.
ParticleCount(w, h) == Min(MaxParticles, (w * h) \div AreaPerParticle)

\* The n-th value (n = 0, 1, ...) Math.random() returns when the random source
\* plays the tape `tape`, a non-empty sequence of numerators k of k / RandDen.
Random(tape, n) == tape[(n % Len(tape)) + 1]

\* (k / RandDen) * (num / den) in fixed point.
RandTimes(k, num, den) == (k * num) \div (den * (RandDen \div Scale))

\* A velocity drawn from twice the range: k / RandDen - 0.5.
RandVelocityWide(k) == DivT((2 * k - RandDen) * 5, 10 * (RandDen \div Scale))

\* (k / RandDen - 0.5) * 0.5 in fixed point.
RandVelocity(k) == DivT((2 * k - RandDen) * 5, 20 * (RandDen \div Scale))

\* The particle pushed by iteration i (i = 0, 1, ...) of createParticles' loop.
NewParticle(canvas, tape, i) ==
    [ x           |-> RandTimes(Random(tape, 6 * i), canvas.width, 1),
      y           |-> RandTimes(Random(tape, 6 * i + 1), canvas.height, 1),
      vx          |-> RandVelocity(Random(tape, 6 * i + 2)),
      vy          |-> RandVelocity(Random(tape, 6 * i + 3)),
      size        |-> RandTimes(Random(tape, 6 * i + 4), 3, 1) + Scale,
      opacity     |-> RandTimes(Random(tape, 6 * i + 5), 5, 10) + (2 * Scale) \div 10,
      connections |-> << >> ]

\* The pool createParticles stores in particlesRef.current.
createParticles(canvas, tape) ==
    [ i \in 1 .. ParticleCount(canvas.width, canvas.height) |->
        NewParticle(canvas, tape, i - 1) ]

\* ------------------------------------------------------------ updateParticles

\* An integration step that adds vx to both coordinates.
IntegrateBothByVx(p) == [p EXCEPT !.x = NumAdd(p.x, p.vx), !.y = NumAdd(p.y, p.vx)]

\* An integration step that also fades the particle.
IntegrateFading(p) ==
    [p EXCEPT !.x = NumAdd(p.x, p.vx), !.y = NumAdd(p.y, p.vy),
              !.opacity = Max(0, p.opacity - 1)]

\* particle.x += particle.vx; particle.y += particle.vy
Integrate(p) == [p EXCEPT !.x = NumAdd(p.x, p.vx), !.y = NumAdd(p.y, p.vy)]

\* x < 0 || x > limit, for a canvas dimension of `limit` pixels.
OutOfRange(v, limit) == NumLt(v, 0) \/ NumGt(v, limit * Scale)

\* A boundary step that negates both velocity components when the position is
\* outside the canvas on either axis.
BounceBothAxes(p, canvas) ==
    IF OutOfRange(p.x, canvas.width) \/ OutOfRange(p.y, canvas.height)
    THEN [p EXCEPT !.vx = NumNeg(p.vx), !.vy = NumNeg(p.vy)]
    ELSE p

\* Boundary bouncing: the velocity component of an axis is negated when the
\* position is outside the canvas on that axis; the position is left as it is.
Bounce(p, canvas) ==
    [p EXCEPT !.vx = IF OutOfRange(p.x, canvas.width) THEN NumNeg(p.vx) ELSE p.vx,
              !.vy = IF OutOfRange(p.y, canvas.height) THEN NumNeg(p.vy) ELSE p.vy]

\* A force that does not fall off with the distance.
ForceConstant(distance) == 1000

\* force = (150 - distance) / 150, in thousandths.
Force(distance) == ((MouseRadius * Scale - distance) * 1000) \div (MouseRadius * Scale)

\* An acceleration away from the pointer.
Repel(d, distance) ==
    IF distance = 0 THEN NaN
    ELSE DivT((-d) * Force(distance), distance * ((1000 * 100) \div Scale))

\* (d / distance) * force * 0.01 in fixed point; 0 / 0 is NaN.
Pull(d, distance) ==
    IF distance = 0 THEN NaN
    ELSE DivT(d * Force(distance), distance * ((1000 * 100) \div Scale))

\* Mouse interaction: a particle closer than 150px to the recorded pointer
\* position is accelerated toward it.
Attract(p, mouse) ==
    LET dx == NumSub(mouse.x * Scale, p.x)
        dy == NumSub(mouse.y * Scale, p.y)
    IN  IF WithinRadius(dx, dy, MouseRadius)
        THEN LET distance == Hypot(dx, dy)
             IN  [p EXCEPT !.vx = NumAdd(p.vx, Pull(dx, distance)),
                           !.vy = NumAdd(p.vy, Pull(dy, distance))]
        ELSE p

\* dist < 120 between two particles as they are when the test runs.
Connected(p, other) ==
    WithinRadius(NumSub(p.x, other.x), NumSub(p.y, other.y), ConnectRadius)

\* A connection step that does not reset particle.connections before pushing.
FindConnectionsKeepingOld(ps, index, p) ==
    LET Close(i) == Connected(p, ps[i + 1])
    IN  p.connections \o
        SelectSeq([k \in 1 .. (Len(ps) - index - 1) |-> index + k], Close)

\* Find connections: the indices i > index (0-based, ascending) of the
\* particles of `ps` closer than 120px to p.
FindConnections(ps, index, p) ==
    LET Close(i) == Connected(p, ps[i + 1])
    IN  SelectSeq([k \in 1 .. (Len(ps) - index - 1) |-> index + k], Close)

\* The body of updateParticles' forEach for the particle at `index` (0-based).
\* The particles after it have not been moved by this pass yet.
UpdateOne(ps, index, canvas, mouse) ==
    LET p == Attract(Bounce(Integrate(ps[index + 1]), canvas), mouse)
    IN  [p EXCEPT !.connections = FindConnections(ps, index, p)]

\* updateParticles: the forEach mutates the particles in place, in index order.
\* The body for a particle reads that particle and the particles after it,
\* none of which the pass has written when the body runs, so every particle's
\* new value is a function of the pool as the pass found it.
updateParticles(ps, canvas, mouse) ==
    [ i \in 1 .. Len(ps) |-> UpdateOne(ps, i - 1, canvas, mouse) ]

\* -------------------------------------------------------------- drawParticles

\* Math.max(0, (120 - distance) / 120) * 0.3 in fixed point.
LineOpacity(distance) ==
    IF IsNaN(distance) THEN NaN
    ELSE (Max(0, ConnectRadius * Scale - distance) * 3) \div (10 * ConnectRadius)

\* The line stroked for connection number k (1-based) of the particle at index.
Line(ps, index, k) ==
    LET particle == ps[index + 1]
        connectedIndex == particle.connections[k]
        connected == ps[connectedIndex + 1]
    IN  [ from  |-> index,
          to    |-> connectedIndex,
          alpha |-> LineOpacity(Hypot(NumSub(particle.x, connected.x),
                                      NumSub(particle.y, connected.y))) ]

\* connected.x of an index outside the pool is a property read of undefined.
BadConnection(ps, index, k) ==
    (ps[index + 1].connections[k] + 1) \notin DOMAIN ps

\* The particle at index has a connection whose index is outside the pool.
HasBadConnection(ps, index) ==
    \E k \in 1 .. Len(ps[index + 1].connections) : BadConnection(ps, index, k)

\* The lines stroked from the particle at index: one per element of its
\* connections, in order, up to the first one that throws.
LinesFrom(ps, index) ==
    LET conns == ps[index + 1].connections
        Reached(k) == \A j \in 1 .. Len(conns) : BadConnection(ps, index, j) => k < j
    IN  [ k \in 1 .. Len(SelectSeq([j \in 1 .. Len(conns) |-> j], Reached)) |->
            Line(ps, index, k) ]

\* The connection loop of drawParticles: the particles in index order, up to
\* the first one whose loop throws.
DrawLines(ps, threw) ==
    [ n \in 1 .. Len(ps) |->
        IF threw /\ \E i \in 0 .. n - 2 : HasBadConnection(ps, i)
        THEN << >>
        ELSE LinesFrom(ps, n - 1) ]

\* createRadialGradient takes restricted doubles: a non-finite argument is a
\* TypeError.
GradientThrows(p) == IsNaN(p.x) \/ IsNaN(p.y) \/ IsNaN(p.size)

\* The particle loop of drawParticles: the number of particles filled before
\* the loop ends or throws.
DrawDots(ps) ==
    LET failing == { i \in 0 .. Len(ps) - 1 : GradientThrows(ps[i + 1]) }
    IN  IF failing = {} THEN Len(ps)
        ELSE CHOOSE i \in failing : \A j \in failing : i <= j

\* drawParticles: what one draw pass puts on the cleared canvas.  lines[i + 1]
\* are the lines stroked from the particle at index i, in order.
drawParticles(ps) ==
    LET linesThrew == \E i \in 0 .. Len(ps) - 1 : HasBadConnection(ps, i)
        dotsThrew == \E i \in 1 .. Len(ps) : GradientThrows(ps[i])
    IN  [ lines |-> DrawLines(ps, linesThrew),
          dots  |-> IF linesThrew THEN 0 ELSE DrawDots(ps),
          threw |-> linesThrew \/ dotsThrew ]

\* -------------------------------------------------------------------- inputs

\* Window sizes (innerWidth, innerHeight) the browser takes.
Viewports ==
    { [width |-> 0, height |-> 0],
      [width |-> 300, height |-> 200],
      [width |-> 1600, height |-> 1000] }

\* Pointer positions (clientX, clientY) of mousemove events.
PointerPositions ==
    { [x |-> 150, y |-> 100],
      [x |-> 310, y |-> 100] }

\* Canvas sizes createParticles is applied to in SpecCreate: degenerate ones,
\* the sizes of the documented scenarios and one beyond the cap.
ProbeSizes ==
    { [width |-> w, height |-> h] : w \in {0, 300, 1500, 1600}, h \in {0, 200, 1000} }

\* Sequences of values Math.random() returns, as numerators of k / RandDen;
\* a tape is replayed from its start when it runs out.  On a 300 x 200 canvas
\* TapeGrid puts particles on the left edge, 120px apart and in the middle;
\* TapeEdge puts the first particle just inside the right edge, drifting
\* outward; TapeMixed has no special position.
TapeGrid ==
    << 0,     50000, 50000, 50000, 0,     0,
       40000, 50000, 0,     50000, 99999, 99999,
       0,     25000, 0,     99999, 50000, 50000,
       50000, 50000, 50000, 50000, 25000, 75000,
       61803 >>

TapeEdge ==
    << 99999, 50000, 50620, 50000, 50000, 50000,
       14159, 26535, 89793, 23846, 26433, 83279,
       50288, 41971, 69399, 37510, 58209, 74944,
       59230, 78164, 6286,  20899, 86280, 34825,
       34211 >>

TapeMixed ==
    << 12345, 67890, 99999, 0,     50000, 31415,
       27182, 81828, 45904, 52353, 60287, 47135,
       26624, 97757, 24709, 36999, 59574, 96696,
       76277, 24076, 63035, 35475, 94571 >>

RandomTapes == { TapeGrid, TapeEdge, TapeMixed }

\* --------------------------------------------------------------------- state

VARIABLES
    hasCanvas,      \* canvasRef.current is an element
    hasContext,     \* canvas.getContext('2d') returns a context
    effect,         \* the mount effect: "pending", "active", "aborted", "failed", "cleaned"
    window,         \* window.innerWidth, window.innerHeight
    pointer,        \* clientX, clientY of the last mousemove the browser dispatched
    canvas,         \* canvas.width, canvas.height
    particles,      \* particlesRef.current
    mouse,          \* mouseRef.current
    animationRef,   \* animationRef.current; 0 is undefined
    rafPending,     \* the handles of the frame requests the browser still holds
    rafNext,        \* the handle the next requestAnimationFrame returns
    listeners,      \* the event types with a listener of this component on window
    thrown,         \* an exception left a handler of this component
    drawn,          \* what the last draw pass put on the canvas
    prev,           \* the pool as the last update pass found it, or as created since
    bounced,        \* the pool's particles as the boundary step of the last pass left them
    mouseSeen,      \* mouseRef.current as the last update pass read it
    fresh,          \* no update pass has run on the pool since it was created
    tape,           \* the random tape of the last createParticles
    passes,         \* update passes run
    draws,          \* draw passes run
    requests,       \* requestAnimationFrame calls made
    teardowns,      \* times the component was torn down
    other,          \* the refs, effect and window registrations of a second
                    \* ParticleBackground instance of the page
    language,       \* LanguageProvider: the language state
    toggles,        \* times the header's language button was clicked
    lookup,         \* the last call of t: its key, the language and the result
    selectedDuration, \* Plans: the selected duration
    activeTab,      \* Plans: the active tab
    openIndex,      \* FAQ: the open item, NoIndex for null
    lastFaq,        \* FAQ: the item clicked last, NoIndex before the first click
    currentIndex,   \* Testimonials: the testimonial shown
    carousel,       \* Testimonials: the auto-advance effect, "pending",
                    \* "running" (interval set) or "cleared"
    carouselEvent   \* Testimonials: the last tick or indicator click

vars ==
    << hasCanvas, hasContext, effect, window, pointer, canvas, particles, mouse,
       animationRef, rafPending, rafNext, listeners, thrown, drawn, prev, bounced,
       mouseSeen, fresh, tape, passes, draws, requests, teardowns, other,
       language, toggles, lookup, selectedDuration, activeTab, openIndex,
       lastFaq, currentIndex, carousel, carouselEvent >>

\* The state of the ParticleBackground instances and their window.
particleVars ==
    << hasCanvas, hasContext, effect, window, pointer, canvas, particles, mouse,
       animationRef, rafPending, rafNext, listeners, thrown, drawn, prev, bounced,
       mouseSeen, fresh, tape, passes, draws, requests, teardowns, other >>

\* The state of the other components of the page.
pageVars ==
    << language, toggles, lookup, selectedDuration, activeTab, openIndex,
       lastFaq, currentIndex, carousel, carouselEvent >>

\* ----------------------------------------------------------- LanguageContext

Languages == {"en", "vi"}

\* useState<Language>('vi')
DefaultLanguage == "vi"

\* The keys of translations.en, in source order.
EnKeys ==
    { "home", "plans", "features", "faq", "clientLogin", "heroTitle",
      "heroSubtitle", "viewPlans", "valueTitle", "valueSubtitle",
      "enterpriseSecurity", "enterpriseSecurityDesc", "instantDeployment",
      "instantDeploymentDesc", "unleashData", "unleashDataDesc",
      "digitalIdentity", "digitalIdentityDesc", "instantActivation",
      "instantActivationDesc", "alwaysOnExpertise", "alwaysOnExpertiseDesc",
      "plansTitle", "plansSubtitle", "trialPackages", "longtermPackages",
      "trialTitle", "trialDescription", "startTrial", "longtermTitle",
      "oneMonth", "threeMonths", "sixMonths", "oneYear", "basic", "standard",
      "advanced", "premium", "orderNow", "save", "onlyFrom", "perMonth",
      "mostPopular", "featuresTitle", "featuresSubtitle", "testimonialsTitle",
      "testimonialsSubtitle", "fullStackDeveloper", "devopsEngineer",
      "productManager", "cloudscaleSolutions", "innovationLabs", "testimonial1",
      "testimonial2", "testimonial3", "faqTitle", "faqSubtitle", "faqQuestion1",
      "faqAnswer1", "faqQuestion2", "faqAnswer2", "faqQuestion3", "faqAnswer3",
      "faqQuestion4", "faqAnswer4", "faqQuestion5", "faqAnswer5",
      "faqQuestion6", "faqAnswer6", "finalCtaTitle", "finalCtaSubtitle",
      "startBuilding", "enterpriseHardware", "enterpriseHardwareDesc",
      "advancedSecurity", "advancedSecurityDesc", "lightningFast",
      "lightningFastDesc", "globalNetwork", "globalNetworkDesc",
      "expertSupport", "expertSupportDesc", "fullControl", "fullControlDesc",
      "quickLinks", "support", "legal", "pricing", "api", "status", "contactUs",
      "community", "privacyPolicy", "cookiePolicy", "gdpr", "apiReference",
      "tutorials", "reportIssue", "documentation", "helpCenter", "systemStatus",
      "termsOfService", "dedicatedIpv4", "uptimeGuarantee", "support247",
      "instantSetup" }

\* A Vietnamese table that lacks the entry `home`.
ViKeysWithoutHome == EnKeys \ {"home"}

\* The keys of translations.vi, in source order.
ViKeys ==
    { "home", "plans", "features", "faq", "clientLogin", "heroTitle",
      "heroSubtitle", "viewPlans", "valueTitle", "valueSubtitle",
      "enterpriseSecurity", "enterpriseSecurityDesc", "instantDeployment",
      "instantDeploymentDesc", "unleashData", "unleashDataDesc",
      "digitalIdentity", "digitalIdentityDesc", "instantActivation",
      "instantActivationDesc", "alwaysOnExpertise", "alwaysOnExpertiseDesc",
      "plansTitle", "plansSubtitle", "trialPackages", "longtermPackages",
      "trialTitle", "trialDescription", "startTrial", "longtermTitle",
      "oneMonth", "threeMonths", "sixMonths", "oneYear", "basic", "standard",
      "advanced", "premium", "orderNow", "save", "onlyFrom", "perMonth",
      "mostPopular", "featuresTitle", "featuresSubtitle", "testimonialsTitle",
      "testimonialsSubtitle", "fullStackDeveloper", "devopsEngineer",
      "productManager", "cloudscaleSolutions", "innovationLabs", "testimonial1",
      "testimonial2", "testimonial3", "faqTitle", "faqSubtitle", "faqQuestion1",
      "faqAnswer1", "faqQuestion2", "faqAnswer2", "faqQuestion3", "faqAnswer3",
      "faqQuestion4", "faqAnswer4", "faqQuestion5", "faqAnswer5",
      "faqQuestion6", "faqAnswer6", "finalCtaTitle", "finalCtaSubtitle",
      "startBuilding", "enterpriseHardware", "enterpriseHardwareDesc",
      "advancedSecurity", "advancedSecurityDesc", "lightningFast",
      "lightningFastDesc", "globalNetwork", "globalNetworkDesc",
      "expertSupport", "expertSupportDesc", "fullControl", "fullControlDesc",
      "quickLinks", "support", "legal", "pricing", "api", "status", "contactUs",
      "community", "privacyPolicy", "cookiePolicy", "gdpr", "apiReference",
      "tutorials", "reportIssue", "documentation", "helpCenter", "systemStatus",
      "termsOfService", "dedicatedIpv4", "uptimeGuarantee", "support247",
      "instantSetup" }

\* The keys of translations[lang].
TranslationKeys(lang) == IF lang = "en" THEN EnKeys ELSE ViKeys

\* The keys whose entry in translations[lang] is the empty string: every entry
\* of both tables is a non-empty string literal.
EmptyEntries(lang) == {}

\* The property names every object literal inherits from Object.prototype; all
\* of them are functions but __proto__, which is the prototype object.
ObjectPrototypeKeys ==
    { "constructor", "toString", "toLocaleString", "valueOf", "hasOwnProperty",
      "isPrototypeOf", "propertyIsEnumerable", "__proto__", "__defineGetter__",
      "__defineSetter__", "__lookupGetter__", "__lookupSetter__" }

\* JavaScript values t can return: the string of a table entry (named by its
\* language and key), the key string itself, a value inherited from
\* Object.prototype, and undefined.
EntryOf(lang, key) == [kind |-> "entry", language |-> lang, key |-> key]

KeyString(key) == [kind |-> "string", language |-> "", key |-> key]

Inherited(key) == [kind |-> "inherited", language |-> "", key |-> key]

Undefined == [kind |-> "undefined", language |-> "", key |-> ""]

\* translations[language][key]: an own property of the table, else a property
\* found on the prototype chain, else undefined.
Property(lang, key) ==
    IF key \in TranslationKeys(lang) THEN EntryOf(lang, key)
    ELSE IF key \in ObjectPrototypeKeys THEN Inherited(key)
    ELSE Undefined

\* ToBoolean: undefined and the empty string are falsy.
Truthy(v) ==
    CASE v.kind = "undefined" -> FALSE
      [] v.kind = "entry" -> v.key \notin EmptyEntries(v.language)
      [] v.kind = "string" -> v.key # ""
      [] OTHER -> TRUE

\* A lookup that returns whatever the table has, without the fallback.
tWithoutFallback(lang, key) == Property(lang, key)

\* t(key) in the language lang: translations[language][key] || key
t(lang, key) ==
    IF Truthy(Property(lang, key)) THEN Property(lang, key) ELSE KeyString(key)

\* Keys t is called with: the keys of both tables, the two keys the components
\* use that no table has, the empty key, an unknown key and names of
\* Object.prototype properties.
ProbeKeys ==
    EnKeys \cup ViKeys \cup
    { "startFreeTrial", "viewPricing", "", "noSuchKey", "constructor", "toString",
      "__proto__" }

\* No call of t has been made.
NoLookup == [key |-> "", language |-> "", result |-> Undefined]

\* Times the language button is clicked at most.
MaxToggles == 4

\* A toggle that always selects English.
ToggleLanguageToEnglish ==
    /\ toggles < MaxToggles
    /\ language' = "en"
    /\ toggles' = toggles + 1
    /\ UNCHANGED << lookup, selectedDuration, activeTab, openIndex, lastFaq,
                    currentIndex, carousel, carouselEvent >>
    /\ UNCHANGED particleVars

\* Header.toggleLanguage: setLanguage(language === 'en' ? 'vi' : 'en')
ToggleLanguage ==
    /\ toggles < MaxToggles
    /\ language' = IF language = "en" THEN "vi" ELSE "en"
    /\ toggles' = toggles + 1
    /\ UNCHANGED << lookup, selectedDuration, activeTab, openIndex, lastFaq,
                    currentIndex, carousel, carouselEvent >>
    /\ UNCHANGED particleVars

\* A component calls t(key) while it renders.
Translate(key) ==
    /\ lookup' = [key |-> key, language |-> language, result |-> t(language, key)]
    /\ UNCHANGED << language, toggles, selectedDuration, activeTab, openIndex,
                    lastFaq, currentIndex, carousel, carouselEvent >>
    /\ UNCHANGED particleVars

\* --------------------------------------------------------------------- Plans

\* type Duration: the keys of the duration selector.
Durations == {"1month", "3months", "6months", "1year"}

\* type PlanTab
PlanTabs == {"trial", "longterm"}

\* plans[i].prices, in the order basic, standard, advanced, premium.
plans ==
    << [name |-> "basic",
        prices |-> [d \in Durations |->
            CASE d = "1month" -> 40000 [] d = "3months" -> 114000
              [] d = "6months" -> 192000 [] d = "1year" -> 360000]],
       [name |-> "standard",
        prices |-> [d \in Durations |->
            CASE d = "1month" -> 70000 [] d = "3months" -> 189000
              [] d = "6months" -> 336000 [] d = "1year" -> 630000]],
       [name |-> "advanced",
        prices |-> [d \in Durations |->
            CASE d = "1month" -> 120000 [] d = "3months" -> 324000
              [] d = "6months" -> 576000 [] d = "1year" -> 1080000]],
       [name |-> "premium",
        prices |-> [d \in Durations |->
            CASE d = "1month" -> 200000 [] d = "3months" -> 540000
              [] d = "6months" -> 960000 [] d = "1year" -> 1800000]] >>

\* getSavingsPercentage(duration)
getSavingsPercentage(duration) ==
    CASE duration = "1month" -> 0
      [] duration = "3months" -> 5
      [] duration = "6months" -> 20
      [] duration = "1year" -> 25

\* The months table of getMonthlyEquivalent.
months(duration) ==
    CASE duration = "1month" -> 1
      [] duration = "3months" -> 3
      [] duration = "6months" -> 6
      [] duration = "1year" -> 12

\* The tab buttons: onClick={() => setActiveTab(tab)}
SelectTab(tab) ==
    /\ activeTab' = tab
    /\ UNCHANGED << language, toggles, lookup, selectedDuration, openIndex,
                    lastFaq, currentIndex, carousel, carouselEvent >>
    /\ UNCHANGED particleVars

\* The duration selector, rendered in the long-term tab only:
\* onClick={() => setSelectedDuration(duration.key)}
SelectDuration(d) ==
    /\ activeTab = "longterm"
    /\ selectedDuration' = d
    /\ UNCHANGED << language, toggles, lookup, activeTab, openIndex, lastFaq,
                    currentIndex, carousel, carouselEvent >>
    /\ UNCHANGED particleVars

\* ----------------------------------------------------------------------- FAQ

\* The null of useState<number | null>, and the index of no item.
NoIndex == -1

\* faqs.length
NumFaqs == 6

\* The indices of the rendered FAQ items.
FaqIndices == 0 .. (NumFaqs - 1)

\* A toggle that opens the clicked item even when it is the open one.
ToggleFAQAlwaysOpen(index) ==
    /\ openIndex' = index
    /\ lastFaq' = index
    /\ UNCHANGED << language, toggles, lookup, selectedDuration, activeTab,
                    currentIndex, carousel, carouselEvent >>
    /\ UNCHANGED particleVars

\* toggleFAQ(index): setOpenIndex(openIndex === index ? null : index);
\* lastFaq records the item that was clicked.
ToggleFAQ(index) ==
    /\ openIndex' = IF openIndex = index THEN NoIndex ELSE index
    /\ lastFaq' = index
    /\ UNCHANGED << language, toggles, lookup, selectedDuration, activeTab,
                    currentIndex, carousel, carouselEvent >>
    /\ UNCHANGED particleVars

\* The items whose answer is expanded: openIndex === index
OpenItems == {i \in FaqIndices : openIndex = i}

\* -------------------------------------------------------------- Testimonials

\* testimonials.length
NumTestimonials == 3

\* The indices of the indicator buttons.
TestimonialIndices == 0 .. (NumTestimonials - 1)

\* No tick and no click has happened.
NoEvent == [kind |-> "none", index |-> NoIndex]

\* The effect of the first commit: setInterval(..., 5000)
MountTestimonials ==
    /\ carousel = "pending"
    /\ carousel' = "running"
    /\ UNCHANGED << language, toggles, lookup, selectedDuration, activeTab,
                    openIndex, lastFaq, currentIndex, carouselEvent >>
    /\ UNCHANGED particleVars

\* An interval callback that advances without wrapping.
TickWithoutWrap ==
    /\ carousel = "running"
    /\ currentIndex' = currentIndex + 1
    /\ carouselEvent' = [kind |-> "tick", index |-> NoIndex]
    /\ UNCHANGED << language, toggles, lookup, selectedDuration, activeTab,
                    openIndex, lastFaq, carousel >>
    /\ UNCHANGED particleVars

\* The interval callback:
\* setCurrentIndex((prev) => (prev + 1) % testimonials.length)
Tick ==
    /\ carousel = "running"
    /\ currentIndex' = (currentIndex + 1) % NumTestimonials
    /\ carouselEvent' = [kind |-> "tick", index |-> NoIndex]
    /\ UNCHANGED << language, toggles, lookup, selectedDuration, activeTab,
                    openIndex, lastFaq, carousel >>
    /\ UNCHANGED particleVars

\* An indicator button of the mounted component:
\* onClick={() => setCurrentIndex(index)}
ClickIndicator(index) ==
    /\ carousel \in {"pending", "running"}
    /\ currentIndex' = index
    /\ carouselEvent' = [kind |-> "click", index |-> index]
    /\ UNCHANGED << language, toggles, lookup, selectedDuration, activeTab,
                    openIndex, lastFaq, carousel >>
    /\ UNCHANGED particleVars

\* The cleanup of the effect: clearInterval(interval)
UnmountTestimonials ==
    /\ carousel = "running"
    /\ carousel' = "cleared"
    /\ UNCHANGED << language, toggles, lookup, selectedDuration, activeTab,
                    openIndex, lastFaq, currentIndex, carouselEvent >>
    /\ UNCHANGED particleVars

\* ---------------------------------------------------------------- page state

\* The state of the page components after their first render.
PageInit ==
    /\ language = DefaultLanguage
    /\ toggles = 0
    /\ lookup = NoLookup
    /\ selectedDuration = "1month"
    /\ activeTab = "trial"
    /\ openIndex = 0
    /\ lastFaq = NoIndex
    /\ currentIndex = 0
    /\ carousel = "pending"
    /\ carouselEvent = NoEvent

\* ------------------------------------------------------------ particle state

\* Times the teardown is run at most.
MaxTeardowns == 2

Origin == [x |-> 0, y |-> 0]

\* The second instance before its effect runs: its own canvas element, pool,
\* pointer position and frame handle, and no frame request or listener.
OtherUnmounted ==
    [ effect       |-> "pending",
      canvas       |-> [width |-> 300, height |-> 150],
      particles    |-> << >>,
      mouse        |-> Origin,
      animationRef |-> 0,
      pending      |-> {},
      listeners    |-> {},
      passes       |-> 0 ]

\* The state before the component mounts, in a window of one of `sizes`.  The
\* canvas element has the HTML default size until resizeCanvas runs.
InitIn(sizes) ==
    /\ hasCanvas \in BOOLEAN
    /\ hasContext \in BOOLEAN
    /\ effect = "pending"
    /\ window \in sizes
    /\ pointer = Origin
    /\ canvas = [width |-> 300, height |-> 150]
    /\ particles = << >>
    /\ mouse = Origin
    /\ animationRef = 0
    /\ rafPending = {}
    /\ rafNext = 1
    /\ listeners = {}
    /\ thrown = FALSE
    /\ drawn = [lines |-> << >>, dots |-> 0, threw |-> FALSE]
    /\ prev = << >>
    /\ bounced = << >>
    /\ mouseSeen = Origin
    /\ fresh = TRUE
    /\ tape = << >>
    /\ passes = 0
    /\ draws = 0
    /\ requests = 0
    /\ teardowns = 0
    /\ other = OtherUnmounted
    /\ PageInit

Init == InitIn(Viewports)

\* ------------------------------------------------------------------ handlers

\* animate() on the pool ps: one update pass, one draw pass, then the request
\* of the next frame.  An exception of the draw pass leaves animate before the
\* request.  The canvas is the one the step leaves (canvas').
animate(ps) ==
    /\ prev' = ps
    /\ fresh' = FALSE
    /\ mouseSeen' = mouse
    /\ bounced' = [ i \in 1 .. Len(prev') |-> Bounce(Integrate(prev'[i]), canvas') ]
    /\ particles' = updateParticles(prev', canvas', mouse)
    /\ passes' = passes + 1
    /\ drawn' = drawParticles(particles')
    /\ draws' = draws + 1
    /\ thrown' = (thrown \/ drawn'.threw)
    /\ IF drawn'.threw
       THEN UNCHANGED << animationRef, rafNext, requests >>
       ELSE /\ animationRef' = rafNext
            /\ rafNext' = rafNext + 1
            /\ requests' = requests + 1

\* A guard that tests the canvas element and not the context.
InitAbortsOnCanvasOnly == ~hasCanvas

\* if (!canvas) return; ... if (!ctx) return;
InitAborts == ~hasCanvas \/ ~hasContext

\* The mount effect (useEffect with no dependencies).
Mount ==
    /\ UNCHANGED pageVars
    /\ effect = "pending"
    /\ IF InitAborts
       THEN /\ effect' = "aborted"
            /\ UNCHANGED << canvas, particles, animationRef, rafPending, rafNext,
                            listeners, thrown, drawn, prev, bounced, mouseSeen,
                            fresh, tape, passes, draws, requests >>
       ELSE \E rnd \in RandomTapes :
              /\ canvas' = window
              /\ tape' = rnd
              /\ animate(createParticles(canvas', rnd))
              /\ IF drawn'.threw
                 THEN /\ effect' = "failed"
                      /\ UNCHANGED << rafPending, listeners >>
                 ELSE /\ effect' = "active"
                      /\ rafPending' = rafPending \cup {animationRef'}
                      /\ listeners' = listeners \cup {"mousemove", "resize"}
    /\ UNCHANGED << hasCanvas, hasContext, window, pointer, mouse, teardowns, other >>

\* The browser runs the frame callback registered under handle id.
Frame(id) ==
    /\ UNCHANGED pageVars
    /\ id \in rafPending
    /\ passes < MaxFrames
    /\ UNCHANGED canvas
    /\ animate(particles)
    /\ rafPending' = IF drawn'.threw THEN rafPending \ {id}
                     ELSE (rafPending \ {id}) \cup {animationRef'}
    /\ UNCHANGED << hasCanvas, hasContext, effect, window, pointer, mouse,
                    listeners, tape, teardowns, other >>

\* handleMouseMove of the second instance, when it is registered: the browser
\* dispatches a mousemove to every listener on window.
OtherMouseMove(pos) ==
    other' = IF "mousemove" \in other.listeners THEN [other EXCEPT !.mouse = pos]
             ELSE other

\* handleResize of the second instance, when it is registered.
OtherResize(v) ==
    IF "resize" \in other.listeners
    THEN \E rnd \in RandomTapes :
           other' = [other EXCEPT !.canvas = v, !.particles = createParticles(v, rnd)]
    ELSE UNCHANGED other

\* A pointer handler that records the first position it is given and keeps it.
MouseMoveFirstWins(pos) ==
    /\ UNCHANGED pageVars
    /\ pos.x < window.width
    /\ pos.y < window.height
    /\ pos # pointer
    /\ pointer' = pos
    /\ OtherMouseMove(pos)
    /\ mouse' = IF "mousemove" \in listeners /\ mouse = Origin THEN pos ELSE mouse
    /\ UNCHANGED << hasCanvas, hasContext, effect, window, canvas, particles,
                    animationRef, rafPending, rafNext, listeners, thrown, drawn,
                    prev, bounced, mouseSeen, fresh, tape, passes, draws, requests,
                    teardowns >>

\* The pointer moves to pos inside the window; handleMouseMove runs when it is
\* registered.
MouseMove(pos) ==
    /\ UNCHANGED pageVars
    /\ pos.x < window.width
    /\ pos.y < window.height
    /\ pos # pointer
    /\ pointer' = pos
    /\ OtherMouseMove(pos)
    /\ mouse' = IF "mousemove" \in listeners THEN pos ELSE mouse
    /\ UNCHANGED << hasCanvas, hasContext, effect, window, canvas, particles,
                    animationRef, rafPending, rafNext, listeners, thrown, drawn,
                    prev, bounced, mouseSeen, fresh, tape, passes, draws, requests,
                    teardowns >>

\* A resize handler that resizes the pool in place: it keeps the particles it
\* has and only drops or adds particles to reach the new count.
ResizeReusingPool(v) ==
    /\ UNCHANGED pageVars
    /\ v # window
    /\ window' = v
    /\ OtherResize(v)
    /\ IF "resize" \in listeners
       THEN \E rnd \in RandomTapes :
              /\ canvas' = v
              /\ tape' = rnd
              /\ particles' = [ i \in 1 .. ParticleCount(v.width, v.height) |->
                                  IF i <= Len(particles) THEN particles[i]
                                  ELSE NewParticle(canvas', rnd, i - 1) ]
              /\ prev' = particles'
              /\ bounced' = particles'
              /\ fresh' = TRUE
       ELSE UNCHANGED << canvas, tape, particles, prev, bounced, fresh >>
    /\ UNCHANGED << hasCanvas, hasContext, effect, pointer, mouse, animationRef,
                    rafPending, rafNext, listeners, thrown, drawn, mouseSeen, passes,
                    draws, requests, teardowns >>

\* A resize handler whose new particles take over the connections the old
\* particle at the same index had.
ResizeKeepingConnections(v) ==
    /\ UNCHANGED pageVars
    /\ v # window
    /\ window' = v
    /\ OtherResize(v)
    /\ IF "resize" \in listeners
       THEN \E rnd \in RandomTapes :
              /\ canvas' = v
              /\ tape' = rnd
              /\ particles' = [ i \in 1 .. ParticleCount(v.width, v.height) |->
                                  IF i <= Len(particles)
                                  THEN [NewParticle(canvas', rnd, i - 1) EXCEPT
                                           !.connections = particles[i].connections]
                                  ELSE NewParticle(canvas', rnd, i - 1) ]
              /\ prev' = particles'
              /\ bounced' = particles'
              /\ fresh' = TRUE
       ELSE UNCHANGED << canvas, tape, particles, prev, bounced, fresh >>
    /\ UNCHANGED << hasCanvas, hasContext, effect, pointer, mouse, animationRef,
                    rafPending, rafNext, listeners, thrown, drawn, mouseSeen, passes,
                    draws, requests, teardowns >>

\* A resize handler that also forgets the recorded pointer position.
ResizeResettingPointer(v) ==
    /\ UNCHANGED pageVars
    /\ v # window
    /\ window' = v
    /\ OtherResize(v)
    /\ IF "resize" \in listeners
       THEN \E rnd \in RandomTapes :
              /\ canvas' = v
              /\ tape' = rnd
              /\ particles' = createParticles(canvas', rnd)
              /\ prev' = particles'
              /\ bounced' = particles'
              /\ fresh' = TRUE
              /\ mouse' = Origin
       ELSE UNCHANGED << canvas, tape, particles, prev, bounced, fresh, mouse >>
    /\ UNCHANGED << hasCanvas, hasContext, effect, pointer, animationRef,
                    rafPending, rafNext, listeners, thrown, drawn, mouseSeen, passes,
                    draws, requests, teardowns >>

\* The window takes the size v; handleResize (resizeCanvas, createParticles)
\* runs when it is registered.
Resize(v) ==
    /\ UNCHANGED pageVars
    /\ v # window
    /\ window' = v
    /\ OtherResize(v)
    /\ IF "resize" \in listeners
       THEN \E rnd \in RandomTapes :
              /\ canvas' = v
              /\ tape' = rnd
              /\ particles' = createParticles(canvas', rnd)
              /\ prev' = particles'
              /\ bounced' = particles'
              /\ fresh' = TRUE
       ELSE UNCHANGED << canvas, tape, particles, prev, bounced, fresh >>
    /\ UNCHANGED << hasCanvas, hasContext, effect, pointer, mouse, animationRef,
                    rafPending, rafNext, listeners, thrown, drawn, mouseSeen, passes,
                    draws, requests, teardowns >>

\* A cleanup that cancels every frame request of the window.
cleanupCancellingAll ==
    /\ rafPending' = {}
    /\ other' = [other EXCEPT !.pending = {}]
    /\ listeners' = listeners \ {"mousemove", "resize"}

\* A cleanup that cancels the frame request and leaves the listeners.
cleanupKeepingListeners ==
    /\ rafPending' = IF animationRef # 0 THEN rafPending \ {animationRef} ELSE rafPending
    /\ other' = [other EXCEPT !.pending = @ \ {animationRef}]
    /\ listeners' = listeners

\* A cleanup that removes the listeners and leaves the frame request alone.
cleanupWithoutCancel ==
    /\ rafPending' = rafPending
    /\ other' = other
    /\ listeners' = listeners \ {"mousemove", "resize"}

\* The function the effect returns: cancelAnimationFrame of the recorded
\* handle and removeEventListener of both handlers.  The browser cancels the
\* request of the window that has the handle, whoever made it, and removes the
\* listener that is this effect's handler function.
cleanup ==
    /\ rafPending' = IF animationRef # 0 THEN rafPending \ {animationRef} ELSE rafPending
    /\ other' = [other EXCEPT !.pending = @ \ {animationRef}]
    /\ listeners' = listeners \ {"mousemove", "resize"}

\* The component is torn down (unmount), possibly more than once.  An effect
\* that returned early returned no cleanup function, so nothing runs for it.
Teardown ==
    /\ UNCHANGED pageVars
    /\ effect \in {"active", "aborted", "cleaned"}
    /\ teardowns < MaxTeardowns
    /\ teardowns' = teardowns + 1
    /\ IF effect = "aborted"
       THEN UNCHANGED << effect, rafPending, listeners, other >>
       ELSE /\ effect' = "cleaned"
            /\ cleanup
    /\ UNCHANGED << hasCanvas, hasContext, window, pointer, canvas, particles,
                    mouse, animationRef, rafNext, thrown, drawn, prev, bounced,
                    mouseSeen, fresh, tape, passes, draws, requests >>

Next ==
    \/ Mount
    \/ \E id \in rafPending : Frame(id)
    \/ \E pos \in PointerPositions : MouseMove(pos)
    \/ \E v \in Viewports : Resize(v)
    \/ Teardown

Spec == Init /\ [][Next]_vars

\* createParticles applied to the sizes of ProbeSizes: the component mounts and
\* the window is resized among them.
InitCreate == InitIn(ProbeSizes)

NextCreate ==
    \/ Mount
    \/ \E v \in ProbeSizes : Resize(v)

SpecCreate == InitCreate /\ [][NextCreate]_vars

\* ------------------------------------------------------------- two instances

\* Window sizes of the page with two ParticleBackground instances.
PairViewports ==
    { [width |-> 300, height |-> 200],
      [width |-> 0, height |-> 0] }

\* Largest number of animate() passes of each instance explored on that page.
MaxPairFrames == 2

\* The second instance after animate() left `updated` in its pool: the request
\* of the next frame is made unless the draw pass threw.
OtherAnimated(o, updated, threw) ==
    [o EXCEPT !.particles = updated,
              !.passes = @ + 1,
              !.animationRef = IF threw THEN @ ELSE rafNext,
              !.pending = IF threw THEN @ ELSE @ \cup {rafNext}]

\* The mount effect of the second instance; its canvas element is rendered.
MountOther ==
    /\ UNCHANGED pageVars
    /\ other.effect = "pending"
    /\ IF ~hasContext
       THEN /\ other' = [other EXCEPT !.effect = "aborted"]
            /\ UNCHANGED rafNext
       ELSE \E rnd \in RandomTapes :
              \E updated \in { updateParticles(createParticles(window, rnd), window,
                                                other.mouse) } :
                \E threw \in { drawParticles(updated).threw } :
                  /\ other' =
                        [OtherAnimated([other EXCEPT !.canvas = window], updated, threw)
                           EXCEPT !.effect = IF threw THEN "failed" ELSE "active",
                                  !.listeners = IF threw THEN @
                                                ELSE {"mousemove", "resize"}]
                  /\ rafNext' = IF threw THEN rafNext ELSE rafNext + 1
    /\ UNCHANGED << hasCanvas, hasContext, effect, window, pointer, canvas,
                    particles, mouse, animationRef, rafPending, listeners, thrown,
                    drawn, prev, bounced, mouseSeen, fresh, tape, passes, draws,
                    requests, teardowns >>

\* The browser runs the frame callback the second instance registered under id.
FrameOther(id) ==
    /\ UNCHANGED pageVars
    /\ id \in other.pending
    /\ other.passes < MaxPairFrames
    /\ \E updated \in { updateParticles(other.particles, other.canvas, other.mouse) } :
         \E threw \in { drawParticles(updated).threw } :
           /\ other' = OtherAnimated([other EXCEPT !.pending = @ \ {id}], updated, threw)
           /\ rafNext' = IF threw THEN rafNext ELSE rafNext + 1
    /\ UNCHANGED << hasCanvas, hasContext, effect, window, pointer, canvas,
                    particles, mouse, animationRef, rafPending, listeners, thrown,
                    drawn, prev, bounced, mouseSeen, fresh, tape, passes, draws,
                    requests, teardowns >>

\* The second instance is torn down: its cleanup cancels the handle it recorded
\* and removes its two handlers.
TeardownOther ==
    /\ UNCHANGED pageVars
    /\ other.effect = "active"
    /\ other' = [other EXCEPT !.effect = "cleaned",
                              !.pending = IF other.animationRef # 0
                                          THEN @ \ {other.animationRef} ELSE @,
                              !.listeners = @ \ {"mousemove", "resize"}]
    /\ rafPending' = rafPending \ {other.animationRef}
    /\ UNCHANGED << hasCanvas, hasContext, effect, window, pointer, canvas,
                    particles, mouse, animationRef, rafNext, listeners, thrown,
                    drawn, prev, bounced, mouseSeen, fresh, tape, passes, draws,
                    requests, teardowns >>

\* The page with both instances (Hero and FinalCTA), in a small window.
InitPair == InitIn(PairViewports) /\ hasCanvas /\ hasContext

NextPair ==
    \/ Mount
    \/ MountOther
    \/ \E id \in rafPending : passes < MaxPairFrames /\ Frame(id)
    \/ \E id \in other.pending : FrameOther(id)
    \/ \E pos \in PointerPositions : MouseMove(pos)
    \/ \E v \in PairViewports : Resize(v)
    \/ Teardown
    \/ TeardownOther

SpecPair == InitPair /\ [][NextPair]_vars

\* ------------------------------------------------------------- the page alone

\* The viewport of the runs that exercise the page components.
PageViewports == { [width |-> 300, height |-> 200] }

\* The language provider and the components that call t.
InitLanguage == InitIn(PageViewports) /\ hasCanvas /\ hasContext

NextLanguage ==
    \/ ToggleLanguage
    \/ \E key \in ProbeKeys : Translate(key)

SpecLanguage == InitLanguage /\ [][NextLanguage]_vars

\* The plans section, the FAQ accordion and the testimonials carousel.
InitPage == InitIn(PageViewports) /\ hasCanvas /\ hasContext

NextPage ==
    \/ \E tab \in PlanTabs : SelectTab(tab)
    \/ \E d \in Durations : SelectDuration(d)
    \/ \E index \in FaqIndices : ToggleFAQ(index)
    \/ MountTestimonials
    \/ Tick
    \/ \E index \in TestimonialIndices : ClickIndicator(index)
    \/ UnmountTestimonials

SpecPage == InitPage /\ [][NextPage]_vars

\* -------------------------------------------------------------------- claims

\* n is min(100, floor(w * h / 15000)), said without division.
CountIs(n, w, h) ==
    /\ 0 <= n
    /\ n <= 100
    /\ n * 15000 <= w * h
    /\ n < 100 => (n + 1) * 15000 > w * h

\* The effect ran to its end: the renderer was initialized.
Initialized == effect \in {"active", "cleaned"}

\* C1: after a teardown, run once or twice or for a component whose
\* initialization aborted, no frame request and no listener of the component is
\* left.  (cancelAnimationFrame and removeEventListener accept any argument, so
\* the cleanup has no failing operation.)
C1_TeardownIdempotent ==
    teardowns > 0 => (rafPending = {} /\ listeners = {})

\* C1 witness: an animating renderer that ran frames was torn down twice.
C1_Witness == teardowns = 2 /\ effect = "cleaned" /\ passes >= 2

\* C2: createParticles makes min(100, floor(width * height / 15000)) particles:
\* never a negative number, 0 for a zero-area canvas, 100 for 1500 x 1000 and
\* 4 for 300 x 200.
C2_ParticleCount ==
    Initialized =>
        /\ CountIs(Len(particles), canvas.width, canvas.height)
        /\ (canvas.width * canvas.height = 0) => Len(particles) = 0
        /\ (canvas.width = 1500 /\ canvas.height = 1000) => Len(particles) = 100
        /\ (canvas.width = 300 /\ canvas.height = 200) => Len(particles) = 4

\* C2 witness: a pool just created for a canvas beyond the cap.
C2_Witness ==
    /\ effect = "active" /\ fresh
    /\ canvas.width * canvas.height > 100 * 15000
    /\ Len(particles) = 100

\* C3: the pool of an initialized renderer always has the size the formula
\* gives for the current canvas, which has the window's size while the resize
\* listener is registered; right after a resize the pool is the freshly
\* generated one for the new size, with nothing of the old pool in it.
C3_PoolFollowsCanvas ==
    Initialized =>
        /\ CountIs(Len(particles), canvas.width, canvas.height)
        /\ "resize" \in listeners => canvas = window
        /\ fresh => \A i \in 1 .. Len(particles) :
                       particles[i] = NewParticle(canvas, tape, i - 1)

\* C3 witness: a resize to a smaller window after frames moved the particles.
C3_Witness ==
    /\ effect = "active" /\ fresh /\ passes >= 2
    /\ Len(particles) = 4
    /\ Len(drawn.lines) = 100

\* Both coordinates of p are numbers.
Finite(p) == ~IsNaN(p.x) /\ ~IsNaN(p.y)

\* p is within [0, canvas.width] x [0, canvas.height].
InsideCanvas(p) ==
    /\ Finite(p)
    /\ 0 <= p.x /\ p.x <= canvas.width * Scale
    /\ 0 <= p.y /\ p.y <= canvas.height * Scale

\* How far the coordinate v is outside [0, limit] (limit in pixels).
Overshoot(v, limit) ==
    IF v < 0 THEN -v ELSE IF v > limit * Scale THEN v - limit * Scale ELSE 0

\* C4 (as claimed): after an update pass a particle is outside the canvas only
\* if it was inside before that pass, and then by no more than the velocity
\* the pass moved it by; stated for the particles whose coordinates are numbers.
C4_AtMostOneFrameOutside ==
    ~fresh =>
        \A i \in 1 .. Len(particles) :
            (Finite(particles[i]) /\ ~InsideCanvas(particles[i])) =>
                /\ InsideCanvas(prev[i])
                /\ Overshoot(particles[i].x, canvas.width) <= Abs(prev[i].vx)
                /\ Overshoot(particles[i].y, canvas.height) <= Abs(prev[i].vy)

\* C5 (as claimed): at the end of an update pass, every pair i < j of particles
\* closer than 120px has j exactly once in the connections of i and i not in
\* the connections of j.
C5_ClosePairsConnected ==
    ~fresh =>
        \A i \in 0 .. Len(particles) - 1 : \A j \in i + 1 .. Len(particles) - 1 :
            Connected(particles[i + 1], particles[j + 1]) =>
                /\ Cardinality({ k \in DOMAIN particles[i + 1].connections :
                                   particles[i + 1].connections[k] = j }) = 1
                /\ \A k \in DOMAIN particles[j + 1].connections :
                       particles[j + 1].connections[k] # i

\* C6: without a canvas element or a 2D context the renderer does nothing, at
\* initialization and ever after: no pool, no pass, no frame request, no
\* listener, no recorded pointer position, no error.
C6_AbortedInitIsSilent ==
    (~hasCanvas \/ ~hasContext) =>
        /\ particles = << >>
        /\ passes = 0 /\ draws = 0
        /\ requests = 0 /\ rafPending = {} /\ animationRef = 0
        /\ listeners = {}
        /\ mouse = Origin
        /\ ~thrown

\* C6 witness: the context was unavailable, and pointer moves and a teardown
\* followed the aborted initialization.
C6_Witness ==
    /\ hasCanvas /\ ~hasContext
    /\ effect = "aborted" /\ teardowns > 0 /\ pointer # Origin

\* The lifecycle phase of the renderer.
Phase ==
    CASE effect \in {"pending", "aborted"} -> "uninitialized"
      [] effect = "active" -> "animating"
      [] effect = "cleaned" -> "tornDown"
      [] OTHER -> "failed"

\* C7: the lifecycle only moves uninitialized -> animating -> torn down, and
\* once torn down no step runs a pass, schedules a frame or changes the pool,
\* the canvas size or the recorded pointer position.
C7_TornDownIsTerminal ==
    [][ /\ << Phase, Phase' >> \in
             { << "uninitialized", "uninitialized" >>, << "uninitialized", "animating" >>,
               << "animating", "animating" >>, << "animating", "tornDown" >>,
               << "tornDown", "tornDown" >> }
        /\ Phase = "tornDown" =>
             UNCHANGED << particles, canvas, mouse, passes, draws, requests,
                          rafPending, animationRef, listeners, drawn >> ]_vars

\* C7 witness: after the teardown the window was resized and the pointer moved.
C7_Witness ==
    /\ effect = "cleaned" /\ passes >= 2
    /\ window # canvas /\ pointer # mouse

\* C8 (as claimed): after the boundary step of an update pass every particle is
\* inside the canvas.  (The later steps of the pass do not move the particle.)
C8_InsideAfterBoundaryStep ==
    ~fresh => \A i \in 1 .. Len(particles) : InsideCanvas(particles[i])

\* C8 (amended): the boundary step does not clamp: after it a particle is where
\* the integration step put it, which for a particle that was inside the canvas
\* is at most its velocity components outside.
C8_UnclampedAfterBoundaryStep ==
    ~fresh =>
        \A i \in 1 .. Len(particles) :
            /\ particles[i].x = NumAdd(prev[i].x, prev[i].vx)
            /\ particles[i].y = NumAdd(prev[i].y, prev[i].vy)
            /\ (InsideCanvas(prev[i]) /\ Finite(particles[i])) =>
                 /\ Overshoot(particles[i].x, canvas.width) <= Abs(prev[i].vx)
                 /\ Overshoot(particles[i].y, canvas.height) <= Abs(prev[i].vy)

\* C8 witness: a pass moved a particle from inside the canvas to outside.
C8_Witness ==
    /\ ~fresh
    /\ \E i \in 1 .. Len(particles) :
         /\ InsideCanvas(prev[i])
         /\ Finite(particles[i]) /\ ~InsideCanvas(particles[i])

\* C9 (as claimed): while the renderer is animating exactly one frame request
\* is pending, the one animate stored last, and every pass so far updated,
\* drew and requested one frame.
C9_OneFramePending ==
    effect = "active" =>
        /\ rafPending = {animationRef}
        /\ Cardinality(rafPending) = 1
        /\ draws = passes
        /\ requests = passes

\* C10: the connections of the particle at index i are indices j with
\* i < j < pool size, without repetition, all of them recorded by the last
\* update pass (j was closer than 120px when that pass tested it); the draw
\* pass stroked at most one line per pair of particles.
C10_ConnectionsForwardOnce ==
    /\ \A i \in 0 .. Len(particles) - 1 :
         LET c == particles[i + 1].connections
         IN  /\ \A k \in 1 .. Len(c) : i < c[k] /\ c[k] < Len(particles)
             /\ \A k \in 1 .. Len(c) - 1 : c[k] < c[k + 1]
             /\ ~fresh => \A k \in 1 .. Len(c) :
                             Connected(particles[i + 1], prev[c[k] + 1])
             /\ fresh => c = << >>
    /\ \A n \in 1 .. Len(drawn.lines) :
         LET l == drawn.lines[n]
         IN  /\ \A k \in 1 .. Len(l) : l[k].from = n - 1 /\ l[k].from < l[k].to
             /\ \A k \in 1 .. Len(l) : \A k2 \in 1 .. Len(l) :
                    k # k2 => l[k].to # l[k2].to

\* C10 witness: after a second pass a particle has several connections, each
\* stroked as a line.
C10_Witness ==
    /\ ~fresh /\ passes >= 2
    /\ \E i \in 1 .. Len(particles) :
         /\ Len(particles[i].connections) >= 2
         /\ Len(drawn.lines[i]) = Len(particles[i].connections)

\* v is a number outside [0, limit] (limit in pixels).
Violates(v, limit) == ~IsNaN(v) /\ (v < 0 \/ v > limit * Scale)

\* C11: the boundary step of an update pass negates vx exactly when the
\* integrated x is < 0 or > width and vy exactly when the integrated y is < 0
\* or > height; it leaves the integrated position as it is, and the pass does
\* not move the particle afterwards.
C11_BounceFlipsViolatedAxis ==
    ~fresh =>
        \A i \in 1 .. Len(bounced) :
            LET x == NumAdd(prev[i].x, prev[i].vx)
                y == NumAdd(prev[i].y, prev[i].vy)
            IN  /\ bounced[i].x = x /\ bounced[i].y = y
                /\ particles[i].x = x /\ particles[i].y = y
                /\ bounced[i].vx = IF Violates(x, canvas.width)
                                   THEN NumNeg(prev[i].vx) ELSE prev[i].vx
                /\ bounced[i].vy = IF Violates(y, canvas.height)
                                   THEN NumNeg(prev[i].vy) ELSE prev[i].vy

\* C11 witness: a pass took a particle with non-zero velocity components out of
\* the canvas on the x axis only; its vx was negated and its vy kept.
C11_Witness ==
    /\ ~fresh
    /\ \E i \in 1 .. Len(bounced) :
         /\ Violates(bounced[i].x, canvas.width)
         /\ ~Violates(bounced[i].y, canvas.height)
         /\ prev[i].vx # 0 /\ prev[i].vy # 0
         /\ bounced[i].vx = -prev[i].vx
         /\ bounced[i].vy = prev[i].vy

\* The offset from the particle at i (1-based) to the pointer position the last
\* update pass read, on each axis.
ToPointerX(i) == NumSub(mouseSeen.x * Scale, bounced[i].x)

ToPointerY(i) == NumSub(mouseSeen.y * Scale, bounced[i].y)

\* The attraction step of the last pass found the particle at i closer than
\* 150px to the pointer and not on it, and left it a velocity that is a number.
Attracted(i) ==
    /\ WithinRadius(ToPointerX(i), ToPointerY(i), 150)
    /\ (ToPointerX(i) # 0 \/ ToPointerY(i) # 0)
    /\ ~IsNaN(particles[i].vx) /\ ~IsNaN(particles[i].vy)

\* vx * vx + vy * vy.
SpeedSq(p) == p.vx * p.vx + p.vy * p.vy

\* The change c of a velocity component does not point away from the offset d.
Toward(c, d) == (d > 0 => c >= 0) /\ (d < 0 => c <= 0) /\ (d = 0 => c = 0)

\* The velocity component v points away from the offset d.
Opposes(v, d) == (d > 0 /\ v < 0) \/ (d < 0 /\ v > 0)

\* C12 (as claimed): no update pass decreases the speed of a particle that is
\* within 150px of the pointer.
C12_SpeedNeverDecreases ==
    ~fresh =>
        \A i \in 1 .. Len(particles) :
            Attracted(i) => SpeedSq(particles[i]) >= SpeedSq(bounced[i])

\* C12 (amended): the attraction step has no damping and no clamp: it changes
\* each velocity component of a particle within 150px toward the pointer,
\* whatever the speed is, so a particle loses speed in a pass only when it was
\* moving away from the pointer on some axis.
C12_PullTowardPointerOnly ==
    ~fresh =>
        \A i \in 1 .. Len(particles) :
            Attracted(i) =>
                /\ Toward(particles[i].vx - bounced[i].vx, ToPointerX(i))
                /\ Toward(particles[i].vy - bounced[i].vy, ToPointerY(i))
                /\ SpeedSq(particles[i]) < SpeedSq(bounced[i]) =>
                       \/ Opposes(bounced[i].vx, ToPointerX(i))
                       \/ Opposes(bounced[i].vy, ToPointerY(i))

\* C12 witness: in one pass the attraction made one particle faster, beyond the
\* 0.25 per axis particles are created with, and another particle, which was
\* moving away from the pointer, slower.
C12_Witness ==
    /\ ~fresh
    /\ \E i \in 1 .. Len(particles) :
         /\ Attracted(i) /\ SpeedSq(particles[i]) > SpeedSq(bounced[i])
         /\ (Abs(particles[i].vx) > Scale \div 4 \/ Abs(particles[i].vy) > Scale \div 4)
    /\ \E i \in 1 .. Len(particles) :
         Attracted(i) /\ SpeedSq(particles[i]) < SpeedSq(bounced[i])

\* The distance from the particle at i to the pointer position the last pass
\* read.
PointerDistance(i) == Hypot(ToPointerX(i), ToPointerY(i))

\* ((150 - d) / 150) * 0.01 in fixed point.
PullMagnitude(d) == (150 * Scale - d) \div (150 * 100)

\* C13: the attraction step leaves the velocity of a particle at distance
\* d >= 150 from the recorded pointer position as it is; for 0 < d < 150 it
\* adds a vector that points from the particle toward the pointer and has the
\* magnitude ((150 - d) / 150) * 0.01, at most 0.01 (up to two units of the
\* fixed-point grid, the rounding of the two components).
C13_PullMagnitude ==
    ~fresh =>
        \A i \in 1 .. Len(particles) :
            LET dx == ToPointerX(i)
                dy == ToPointerY(i)
                cx == particles[i].vx - bounced[i].vx
                cy == particles[i].vy - bounced[i].vy
            IN  /\ (Finite(bounced[i]) /\ ~WithinRadius(dx, dy, 150)) =>
                     /\ particles[i].vx = bounced[i].vx
                     /\ particles[i].vy = bounced[i].vy
                /\ Attracted(i) =>
                     /\ Toward(cx, dx) /\ Toward(cy, dy)
                     /\ Abs(cx * dy - cy * dx) <= Abs(dx) + Abs(dy)
                     /\ Abs(Hypot(cx, cy) - PullMagnitude(PointerDistance(i))) <= 2
                     /\ Hypot(cx, cy) <= Scale \div 100

\* C13 witness: one pass pulled a particle between 30px and 120px from the
\* pointer on both axes and left the velocity of a particle beyond 150px alone.
C13_Witness ==
    /\ ~fresh
    /\ \E i \in 1 .. Len(particles) :
         /\ Attracted(i)
         /\ PointerDistance(i) > 30 * Scale /\ PointerDistance(i) < 120 * Scale
         /\ particles[i].vx # bounced[i].vx /\ particles[i].vy # bounced[i].vy
    /\ \E i \in 1 .. Len(particles) :
         /\ Finite(bounced[i])
         /\ ~WithinRadius(ToPointerX(i), ToPointerY(i), 150)
         /\ bounced[i].vx # 0

\* C14: pointer tracking is last-write-wins.  A pointer move delivered to the
\* handler replaces the recorded position by the event's coordinates; no other
\* step changes the recorded position; and an update pass computes the pool
\* from the position recorded when it runs, the one of the latest move.
C14_LastPointerWins ==
    [][ /\ (pointer' # pointer /\ "mousemove" \in listeners) => mouse' = pointer'
        /\ (pointer' = pointer) => mouse' = mouse
        /\ (passes' # passes) =>
              /\ mouse' = mouse
              /\ mouseSeen' = mouse
              /\ particles' = updateParticles(prev', canvas', mouse) ]_vars

\* C14 witness: a pass used a position recorded by a pointer move, and the
\* pointer has moved again since, to a position no pass has used yet.
C14_Witness ==
    /\ effect = "active" /\ ~fresh /\ passes >= 2
    /\ mouseSeen # Origin
    /\ mouse # mouseSeen /\ mouse = pointer
    /\ \E i \in 1 .. Len(particles) : Attracted(i)

\* C15: each handler changes its own part of the state.  A pointer move leaves
\* the pool, the canvas size and the frame handle alone; a resize leaves the
\* recorded pointer position and the frame handle alone; a frame callback
\* leaves the pool size, the canvas size, the recorded pointer position and
\* every particle's size and opacity alone.
C15_HandlersOwnTheirState ==
    [][ /\ (pointer' # pointer) =>
              UNCHANGED << particles, canvas, animationRef, rafPending >>
        /\ (window' # window) =>
              UNCHANGED << mouse, animationRef, rafPending, passes, draws >>
        /\ (passes' # passes /\ effect = "active") =>
              /\ UNCHANGED << canvas, mouse, window >>
              /\ Len(particles') = Len(particles)
              /\ \A i \in 1 .. Len(particles) :
                    /\ particles'[i].size = particles[i].size
                    /\ particles'[i].opacity = particles[i].opacity ]_vars

\* C15 witness: frames ran, the pointer moved and the window was then resized
\* to a size with a non-empty pool.
C15_Witness ==
    /\ effect = "active" /\ fresh /\ passes >= 2
    /\ mouse # Origin /\ mouseSeen # Origin
    /\ Len(particles) > 0

\* C16: size and opacity are fixed at creation.  A step that does not
\* regenerate the pool (a frame callback with its update and draw pass, a
\* pointer move, a teardown) keeps the size and the opacity of every particle.
C16_SizeAndOpacityFixed ==
    [][ (window' = window /\ effect # "pending") =>
            /\ Len(particles') = Len(particles)
            /\ \A i \in 1 .. Len(particles) :
                  /\ particles'[i].size = particles[i].size
                  /\ particles'[i].opacity = particles[i].opacity ]_vars

\* C16 witness: after three passes and a pointer move a particle has moved from
\* where it was created and still has the size and opacity it was created with.
C16_Witness ==
    /\ ~fresh /\ passes >= 3 /\ mouseSeen # Origin
    /\ \E i \in 1 .. Len(particles) :
         /\ Finite(particles[i])
         /\ particles[i].x # NewParticle(canvas, tape, i - 1).x
         /\ particles[i].vx # NewParticle(canvas, tape, i - 1).vx
         /\ particles[i].size = NewParticle(canvas, tape, i - 1).size
         /\ particles[i].opacity = NewParticle(canvas, tape, i - 1).opacity

\* lo <= v <= hi for thousandths lo, hi of a pixel (or of 1.0).
Between(v, lo, hi) == lo * (Scale \div 1000) <= v /\ v <= hi * (Scale \div 1000)

\* C17: a particle as createParticles made it, at initialization (the pool the
\* first pass found) and after a resize, has x in [0, width], y in
\* [0, height], vx and vy in [-0.25, 0.25], size in [1, 4], opacity in
\* [0.2, 0.7] and no connections.
C17_FreshParticleRanges ==
    Initialized =>
        /\ (fresh \/ passes = 1) =>
              \A i \in 1 .. Len(prev) :
                  /\ Between(prev[i].x, 0, canvas.width * 1000)
                  /\ Between(prev[i].y, 0, canvas.height * 1000)
                  /\ Between(prev[i].vx, -250, 250)
                  /\ Between(prev[i].vy, -250, 250)
                  /\ Between(prev[i].size, 1000, 4000)
                  /\ Between(prev[i].opacity, 200, 700)
                  /\ prev[i].connections = << >>
        /\ fresh => particles = prev

\* C17 witness: a pool of 100 particles made by a resize in which the random
\* source returned its smallest and its largest value for the position, the
\* velocity and the size.
C17_Witness ==
    /\ effect = "active" /\ fresh /\ Len(particles) = 100
    /\ \E i \in 1 .. 100 : particles[i].x = 0
    /\ \E i \in 1 .. 100 : particles[i].y > canvas.height * Scale - Scale
    /\ \E i \in 1 .. 100 : particles[i].vx = -(Scale \div 4)
    /\ \E i \in 1 .. 100 : particles[i].vy >= Scale \div 4 - 1
    /\ \E i \in 1 .. 100 : particles[i].size = Scale
    /\ \E i \in 1 .. 100 : particles[i].size >= 4 * Scale - 1
    /\ \E i \in 1 .. 100 : particles[i].opacity = (2 * Scale) \div 10
    /\ \E i \in 1 .. 100 : particles[i].opacity >= (7 * Scale) \div 10 - 1

\* The distance between the particles at the 0-based indices i and j.
Distance(i, j) ==
    Hypot(NumSub(particles[i + 1].x, particles[j + 1].x),
          NumSub(particles[i + 1].y, particles[j + 1].y))

\* alpha is 0.3 * (120 - d) / 120 for d < 120 and 0 for d >= 120, up to one
\* unit of the fixed-point grid.
OpacityFor(alpha, d) ==
    /\ ~IsNaN(alpha) /\ ~IsNaN(d)
    /\ 0 <= alpha /\ alpha <= (3 * Scale) \div 10
    /\ IF d >= 120 * Scale THEN alpha = 0
       ELSE Abs(alpha * 1200 - 3 * (120 * Scale - d)) < 1200

\* C18 (as claimed): the draw pass strokes one line for each recorded
\* connection, with an opacity in [0, 0.3] that is 0.3 * (120 - d) / 120 for
\* the distance d of the two particles when the line is drawn, and 0 when
\* d >= 120.
C18_OneLinePerConnection ==
    (~fresh /\ draws = passes) =>
        \A n \in 1 .. Len(particles) :
            /\ Len(drawn.lines[n]) = Len(particles[n].connections)
            /\ \A k \in 1 .. Len(drawn.lines[n]) :
                  LET l == drawn.lines[n][k]
                  IN  /\ l.from = n - 1
                      /\ l.to = particles[n].connections[k]
                      /\ OpacityFor(l.alpha, Distance(l.from, l.to))

\* C19 (as claimed): after every update pass the position and the velocity of
\* every particle are finite numbers, whether or not a particle coincides with
\* the recorded pointer position.
C19_AlwaysFinite ==
    \A i \in 1 .. Len(particles) :
        /\ ~IsNaN(particles[i].x) /\ ~IsNaN(particles[i].y)
        /\ ~IsNaN(particles[i].vx) /\ ~IsNaN(particles[i].vy)

\* C20: whatever the interleaving of resizes and frame callbacks, every
\* connection index in the pool is the index of a particle of the pool, so the
\* draw pass never dereferences a missing particle.  A pool made by a resize
\* has no connections; every draw pass ran right after an update pass in the
\* same callback, and the connections it read are the ones that pass wrote.
C20_ConnectionsInPool ==
    /\ \A i \in 0 .. Len(particles) - 1 : ~HasBadConnection(particles, i)
    /\ fresh => \A i \in 1 .. Len(particles) : particles[i].connections = << >>
    /\ draws = passes
    /\ ~fresh =>
          \A n \in 1 .. Len(particles) :
              [ k \in 1 .. Len(drawn.lines[n]) |-> drawn.lines[n][k].to ]
                  = particles[n].connections

\* C20 witness: the renderer ran in the 1600 x 1000 window (the pointer position
\* it recorded lies beyond 300px), a resize replaced its pool of 100 particles
\* by a pool of four, and a frame then updated and drew the new pool, which has
\* connections.
C20_Witness ==
    /\ effect = "active" /\ ~fresh /\ passes >= 3
    /\ Len(particles) = 4 /\ Len(prev) = 4
    /\ \E n \in 1 .. 4 : Len(particles[n].connections) > 0
    /\ mouseSeen.x > 300

\* C21: two mounted instances are independent.  Their frame handles differ and
\* no request is pending for both; tearing down one instance leaves the other's
\* pool, pointer position, frame request and listeners as they are; and a frame
\* callback of one instance changes nothing of the other.
C21_InstancesIndependent ==
    [][ /\ rafPending \cap other.pending = {}
        /\ (animationRef # 0) => animationRef # other.animationRef
        /\ (teardowns' # teardowns) => other' = other
        /\ (other.effect = "active" /\ other'.effect = "cleaned") =>
              UNCHANGED << effect, particles, canvas, mouse, animationRef,
                           rafPending, listeners >>
        /\ (passes' # passes) => other' = other
        /\ (other'.passes # other.passes) =>
              UNCHANGED << effect, particles, canvas, mouse, animationRef,
                           rafPending, listeners >> ]_vars

\* C21 witness: both instances ran frames with a pointer position recorded, the
\* first one was torn down, and the second still has its frame request and its
\* listeners.
C21_Witness ==
    /\ effect = "cleaned" /\ passes >= 2 /\ rafPending = {} /\ listeners = {}
    /\ other.effect = "active" /\ other.passes >= 2
    /\ other.pending = {other.animationRef}
    /\ other.listeners = {"mousemove", "resize"}
    /\ other.mouse # Origin /\ Len(other.particles) > 0
    /\ other.animationRef > animationRef

\* The price of the plan for the duration is the 1-month price times the number
\* of months, less the percentage getSavingsPercentage gives for the duration.
DiscountIsExact(plan, duration) ==
    plan.prices[duration] * 100 =
        plan.prices["1month"] * months(duration) * (100 - getSavingsPercentage(duration))

\* C22 (as claimed): in the long-term tab the savings percentage shown for the
\* selected duration (0, 5, 20, 25 for 1, 3, 6, 12 months) is the real discount
\* of the price of each of the four plans for that duration against its
\* 1-month price times the number of months.
C22_SavingsMatchPrices ==
    /\ getSavingsPercentage("1month") = 0 /\ getSavingsPercentage("3months") = 5
    /\ getSavingsPercentage("6months") = 20 /\ getSavingsPercentage("1year") = 25
    /\ Len(plans) = 4
    /\ activeTab = "longterm" =>
          \A i \in 1 .. Len(plans) : DiscountIsExact(plans[i], selectedDuration)

\* What the claim says t returns for the key in the language: the entry of the
\* language's table when there is one and it is not empty, else the key.
EntryOrKey(lang, key) ==
    IF key \in TranslationKeys(lang) /\ key \notin EmptyEntries(lang)
    THEN EntryOf(lang, key)
    ELSE KeyString(key)

\* C23 (as claimed): t(key) is total: for every key and either language it
\* returns the entry of the current language's table when that entry exists
\* and is non-empty, and the key itself otherwise; the result is a string, and
\* for a non-empty key it is neither undefined nor the empty string.
C23_LookupIsEntryOrKey ==
    lookup # NoLookup =>
        /\ lookup.result = EntryOrKey(lookup.language, lookup.key)
        /\ lookup.result.kind \in {"entry", "string"}
        /\ lookup.key # "" => Truthy(lookup.result)

\* t(key) in the language is the raw key.
FallsBack(lang, key) == t(lang, key) = KeyString(key)

\* C24: the English and the Vietnamese table define the same set of keys: for
\* every key, t falls back to the raw key in one language exactly when it does
\* in the other, and a toggle of the language turns no translated label into a
\* raw key.
C24_SameKeysInBothTables ==
    [][ /\ EnKeys = ViKeys
        /\ \A key \in ProbeKeys : FallsBack("en", key) <=> FallsBack("vi", key)
        /\ (language' # language) =>
              \A key \in ProbeKeys :
                  ~FallsBack(language, key) => ~FallsBack(language', key)
        /\ (lookup' # lookup /\ lookup'.result.kind = "entry") =>
              /\ lookup'.result.language = language
              /\ \A lang \in Languages : t(lang, lookup'.key) = EntryOf(lang, lookup'.key) ]_vars

\* C24 witness: after a toggle to English and one back to Vietnamese, t returned
\* the Vietnamese entry of a key of the tables.
C24_Witness ==
    /\ toggles >= 2 /\ language = "vi"
    /\ lookup.language = "vi" /\ lookup.key = "home"
    /\ lookup.result = EntryOf("vi", "home")

\* C25: the toggle keeps the language within {en, vi} and alternates it: after
\* n toggles the language is the starting one exactly when n is even.
C25_ToggleAlternates ==
    /\ language \in Languages
    /\ (language = DefaultLanguage) <=> (toggles % 2 = 0)

\* C25 witness: three toggles left the language at English.
C25_Witness == toggles = 3 /\ language = "en"

\* C26: at most one FAQ item is open, and the open index is null or one of
\* 0..5.  Item 0 is open until the first toggle; toggling the open item leaves
\* no item open; toggling a closed item opens it, and with that closes the
\* item that was open.
C26_OneItemOpen ==
    [][ /\ openIndex \in FaqIndices \cup {NoIndex}
        /\ Cardinality(OpenItems) <= 1
        /\ lastFaq = NoIndex => openIndex = 0
        /\ (<< openIndex, lastFaq >>' # << openIndex, lastFaq >>) =>
              /\ lastFaq' \in FaqIndices
              /\ (openIndex = lastFaq') => (openIndex' = NoIndex /\ OpenItems' = {})
              /\ (openIndex # lastFaq') => (openIndex' = lastFaq' /\ OpenItems' = {lastFaq'}) ]_vars

\* C26 witness: item 3 was toggled while it was open and no item is open now.
C26_Witness == openIndex = NoIndex /\ lastFaq = 3 /\ OpenItems = {}

\* C27: whatever the interleaving of ticks and indicator clicks, the current
\* index is one of 0..2.  A tick advances it by one and takes it from the last
\* testimonial to the first; a click on indicator k sets it to k; once the
\* interval is cleared at the unmount no step changes it.
C27_IndexStaysValid ==
    [][ /\ currentIndex \in TestimonialIndices
        /\ currentIndex' \in TestimonialIndices
        /\ (carousel = "cleared") => UNCHANGED << currentIndex, carouselEvent >>
        /\ (<< currentIndex, carouselEvent >>' # << currentIndex, carouselEvent >>) =>
              /\ (carouselEvent'.kind = "tick") =>
                    /\ carousel = "running"
                    /\ currentIndex' = IF currentIndex = NumTestimonials - 1
                                       THEN 0 ELSE currentIndex + 1
              /\ (carouselEvent'.kind = "click") =>
                    currentIndex' = carouselEvent'.index
              /\ carouselEvent'.kind \in {"tick", "click"} ]_vars

\* C27 witness: the component was unmounted after a tick that took the index
\* from the last testimonial to the first.
C27_Witness ==
    carousel = "cleared" /\ currentIndex = 0 /\ carouselEvent.kind = "tick"

====
